---- MODULE Spec2Model ----
(***************************************************************************)
(* State-machine model of the PDF splitting pipeline of pdfautomation:     *)
(* the extract_* functions, get_unique_filename, the per-document          *)
(* orchestrators process_pdf / process_update_lien_cac_cavalry, the GUI    *)
(* worker SplitPDFApp.run_type(.worker) of src/app_tkinter.py, and the     *)
(* path collection of compress_pdfs_background of src/app_api.py.          *)
(*                                                                         *)
(* Text is modelled as a sequence of one-character strings, so that        *)
(* searching, stripping, matching and file-name formatting are computed    *)
(* character by character as the Python code computes them.                *)
(***************************************************************************)
EXTENDS Integers, Sequences, FiniteSets, TLC

(***************************************************************************)
(* Bounds of the model.                                                    *)
(***************************************************************************)
MaxDocs == 2
MaxPages == 2
MaxTotalPages == 3
MaxRuns == 2
MaxInFiles == 3
MaxWorkers == 3

(***************************************************************************)
(* Characters and Python string primitives.                                *)
(***************************************************************************)
UpperChars == <<"A","B","C","D","E","F","G","H","I","J","K","L","M",
                "N","O","P","Q","R","S","T","U","V","W","X","Y","Z">>
LowerChars == <<"a","b","c","d","e","f","g","h","i","j","k","l","m",
                "n","o","p","q","r","s","t","u","v","w","x","y","z">>
DigitChars == <<"0","1","2","3","4","5","6","7","8","9">>

Range(s) == {s[k] : k \in DOMAIN s}

IsDigit(c) == c \in Range(DigitChars)
IsAlpha(c) == c \in Range(UpperChars) \cup Range(LowerChars)
IsAlnum(c) == IsAlpha(c) \/ IsDigit(c)
\* \s of the re module, restricted to the whitespace the sample texts use
IsSpace(c) == c \in {" ", "\n", "\t"}
\* \w of the re module
IsWord(c) == IsAlnum(c) \/ c = "_"

\* str.lower() on one character
LowerChar(c) ==
    IF c \in Range(UpperChars)
    THEN LowerChars[CHOOSE k \in DOMAIN UpperChars : UpperChars[k] = c]
    ELSE c

\* str.lower()
Lower(s) == [k \in DOMAIN s |-> LowerChar(s[k])]

\* s[start:] for start >= 0
SliceFrom(s, start) == SubSeq(s, start + 1, Len(s))

\* sub occurs in s at 0-based position p
OccursAt(s, sub, p) ==
    /\ p >= 0
    /\ p + Len(sub) <= Len(s)
    /\ \A k \in 1..Len(sub) : s[p + k] = sub[k]

\* str.find(sub): lowest 0-based index, -1 when absent
Find(s, sub) ==
    IF \E p \in 0..Len(s) : OccursAt(s, sub, p)
    THEN CHOOSE p \in 0..Len(s) :
            /\ OccursAt(s, sub, p)
            /\ \A q \in 0..(p - 1) : ~OccursAt(s, sub, q)
    ELSE -1

\* sub in s
Contains(s, sub) == Find(s, sub) # -1

RECURSIVE LStrip(_, _)
LStrip(s, chars) ==
    IF s # <<>> /\ Head(s) \in chars THEN LStrip(Tail(s), chars) ELSE s

RECURSIVE RStrip(_, _)
RStrip(s, chars) ==
    IF s # <<>> /\ s[Len(s)] \in chars
    THEN RStrip(SubSeq(s, 1, Len(s) - 1), chars)
    ELSE s

\* str.strip(chars)
Strip(s, chars) == RStrip(LStrip(s, chars), chars)

\* length of the longest prefix of s whose characters all satisfy the class
RECURSIVE RunLen(_, _)
RunLen(s, class) ==
    IF s # <<>> /\ Head(s) \in class THEN 1 + RunLen(Tail(s), class) ELSE 0

AlnumSpaceClass == Range(UpperChars) \cup Range(LowerChars) \cup Range(DigitChars)
                   \cup {" ", "\n", "\t"}
FileNoClass == Range(UpperChars) \cup Range(LowerChars) \cup Range(DigitChars)
               \cup {".", ",", "-"}
SpaceClass == {" ", "\n", "\t"}
DigitClass == Range(DigitChars)

\* str.replace(" ", "")
RemoveBlanks(s) == SelectSeq(s, LAMBDA c : c # " ")

\* re.sub(r'\s+', '', s)
RemoveSpace(s) == SelectSeq(s, LAMBDA c : ~IsSpace(c))

\* re.sub(r'[.,]', '', s)
RemoveDotsCommas(s) == SelectSeq(s, LAMBDA c : c \notin {".", ","})

\* str.splitlines() for texts whose only line break is "\n"
RECURSIVE SplitLines(_)
SplitLines(s) ==
    IF s = <<>> THEN <<>>
    ELSE LET n == RunLen(s, {c \in Range(s) : c # "\n"})
         IN  IF n = Len(s) THEN <<s>>
             ELSE <<SubSeq(s, 1, n)>> \o SplitLines(SubSeq(s, n + 2, Len(s)))

\* Python's None, distinct from every string (strings hold one-character items)
None == <<"<None>">>

\* truthiness of an optional string: None and "" are falsy
\* a truth test that only rejects None
TruthyNotNone(v) == v # None

\* bool(v) for None and strings
Truthy(v) == v # None /\ v # <<>>

\* decimal digits of a natural number, as str(n) / f"{n}" produce them
RECURSIVE Digits(_)
Digits(n) ==
    IF n < 10 THEN <<DigitChars[n + 1]>>
    ELSE Digits(n \div 10) \o <<DigitChars[(n % 10) + 1]>>

(***************************************************************************)
(* Sample OCR texts (what pytesseract.image_to_string / easyocr readtext   *)
(* joined by "\n" return for a page).                                      *)
(***************************************************************************)
\* "Case No: ABC1"
TextCaseNoABC1 == <<"C","a","s","e"," ","N","o",":"," ","A","B","C","1">>
\* "Case No: Pending"
TextCaseNoPending ==
    <<"C","a","s","e"," ","N","o",":"," ","P","e","n","d","i","n","g">>
\* "Hello World 123"
TextNoKeyword ==
    <<"H","e","l","l","o"," ","W","o","r","l","d"," ","1","2","3">>
\* "File No: 123-ABC"
TextFileNo ==
    <<"F","i","l","e"," ","N","o",":"," ","1","2","3","-","A","B","C">>
\* "File No."
TextFileNoDot == <<"F","i","l","e"," ","N","o",".">>
\* "Case Number: XYZ7890\nFiled on 04/25/2025"
TextCaseNumber ==
    <<"C","a","s","e"," ","N","u","m","b","e","r",":"," ",
      "X","Y","Z","7","8","9","0","\n",
      "F","i","l","e","d"," ","o","n"," ",
      "0","4","/","2","5","/","2","0","2","5">>
\* "Case Number:"
TextCaseNumberBare == <<"C","a","s","e"," ","N","u","m","b","e","r",":">>
\* "" (a blank page)
TextBlank == <<>>
\* "CaseNo 11\nCase No 22"
TextCasenoThenCaseNo ==
    <<"C","a","s","e","N","o"," ","1","1","\n",
      "C","a","s","e"," ","N","o"," ","2","2">>
\* "Case No: 11\nCase Number: 22"
TextCaseNoThenCaseNumber ==
    <<"C","a","s","e"," ","N","o",":"," ","1","1","\n",
      "C","a","s","e"," ","N","u","m","b","e","r",":"," ","2","2">>
\* "Case No: -\nCase No 22"
TextCaseNoTwice ==
    <<"C","a","s","e"," ","N","o",":"," ","-","\n",
      "C","a","s","e"," ","N","o"," ","2","2">>
\* "File No: #\nFile No 22"
TextFileNoTwice ==
    <<"F","i","l","e"," ","N","o",":"," ","#","\n",
      "F","i","l","e"," ","N","o"," ","2","2">>
\* "Case: AB 12"
TextCaseToken == <<"C","a","s","e",":"," ","A","B"," ","1","2">>
\* "Case Number:\nCase Number 22"
TextCaseNumberTwice ==
    <<"C","a","s","e"," ","N","u","m","b","e","r",":","\n",
      "C","a","s","e"," ","N","u","m","b","e","r"," ","2","2">>

\* the page images of the samples, by name
Images ==
    {"case_no_abc1", "case_no_pending", "no_keyword", "file_no", "file_no_dot",
     "case_number", "case_number_bare", "blank", "caseno_then_case_no",
     "case_no_then_case_number", "case_no_twice", "file_no_twice",
     "case_number_twice", "case_token"}

\* pytesseract.image_to_string(image), and "\n".join(readtext(image))
image_to_string ==
    [image \in Images |->
        CASE image = "case_no_abc1" -> TextCaseNoABC1
          [] image = "case_no_pending" -> TextCaseNoPending
          [] image = "no_keyword" -> TextNoKeyword
          [] image = "file_no" -> TextFileNo
          [] image = "file_no_dot" -> TextFileNoDot
          [] image = "case_number" -> TextCaseNumber
          [] image = "case_number_bare" -> TextCaseNumberBare
          [] image = "caseno_then_case_no" -> TextCasenoThenCaseNo
          [] image = "case_no_then_case_number" -> TextCaseNoThenCaseNumber
          [] image = "case_no_twice" -> TextCaseNoTwice
          [] image = "file_no_twice" -> TextFileNoTwice
          [] image = "case_number_twice" -> TextCaseNumberTwice
          [] image = "case_token" -> TextCaseToken
          [] OTHER -> TextBlank]

(***************************************************************************)
(* Keywords and literals of the extract_* functions.                       *)
(***************************************************************************)
KwCaseNo == <<"c","a","s","e"," ","n","o">>
KwCaseno == <<"c","a","s","e","n","o">>
KwCaseNumber == <<"c","a","s","e"," ","n","u","m","b","e","r">>
KwNumber == <<"n","u","m","b","e","r">>
KwNumberColon == <<"n","u","m","b","e","r",":">>
KwOn == <<"o","n">>
KwFile == <<"f","i","l","e">>
KwNo == <<"n","o">>

\* the strip sets " .:_-" and " .:_"
StripLien == {" ", ".", ":", "_", "-"}
StripUpdate == {" ", ".", ":", "_"}

(***************************************************************************)
(* extract_id_dismissal: re.findall over the whole text, ignoring case,    *)
(* of "File", optional whitespace, "No", an optional one of ":", ".", ";", *)
(* optional whitespace, and a captured run of one or more of               *)
(* [A-Za-z0-9.,-]; the first match, with "." and "," removed.              *)
(***************************************************************************)
\* the group captured by a match starting at 0-based position p, or None
FileNoMatchAt(text, p) ==
    LET low == Lower(text)
        q1 == p + 4 + RunLen(SliceFrom(text, p + 4), SpaceClass)
        q2 == q1 + 2
        \* [:.;]? taken (the greedy choice), then \s*
        qa == q2 + 1 + RunLen(SliceFrom(text, q2 + 1), SpaceClass)
        ra == RunLen(SliceFrom(text, qa), FileNoClass)
        \* [:.;]? left out (after backtracking), then \s*
        qb == q2 + RunLen(SliceFrom(text, q2), SpaceClass)
        rb == RunLen(SliceFrom(text, qb), FileNoClass)
    IN  IF ~(OccursAt(low, KwFile, p) /\ OccursAt(low, KwNo, q1)) THEN None
        ELSE IF q2 < Len(text) /\ text[q2 + 1] \in {":", ".", ";"} /\ ra >= 1
             THEN SubSeq(text, qa + 1, qa + ra)
        ELSE IF rb >= 1 THEN SubSeq(text, qb + 1, qb + rb)
        ELSE None

\* the outcome of an extract_* call: raised is TRUE when the body raised
Outcome(r, id, d) == [raised |-> r, id |-> id, date |-> d]

extract_id_dismissal(text) ==
    LET hits == {p \in 0..Len(text) : FileNoMatchAt(text, p) # None}
    IN  IF hits = {} THEN Outcome(FALSE, None, None)
        ELSE LET p == CHOOSE x \in hits : \A y \in hits : x <= y
             IN  Outcome(FALSE, RemoveDotsCommas(FileNoMatchAt(text, p)), None)

(***************************************************************************)
(* extract_id_lien: line by line, "case no" else "caseno".                 *)
(***************************************************************************)
\* re.match(r'^([A-Za-z0-9\s]+)', after), spaces removed; None when no match
LienToken(line, idx, kw) ==
    LET after == Strip(SliceFrom(line, idx + Len(kw)), StripLien)
        n == RunLen(after, AlnumSpaceClass)
    IN  IF n >= 1 THEN RemoveSpace(SubSeq(after, 1, n)) ELSE None

RECURSIVE LienScan(_)
LienScan(lines) ==
    IF lines = <<>> THEN None
    ELSE LET line == Head(lines)
             low == Lower(line)
             tok == IF Contains(low, KwCaseNo)
                    THEN LienToken(line, Find(low, KwCaseNo), KwCaseNo)
                    ELSE IF Contains(low, KwCaseno)
                    THEN LienToken(line, Find(low, KwCaseno), KwCaseno)
                    ELSE None
         IN  IF Truthy(tok) THEN tok ELSE LienScan(Tail(lines))

extract_id_lien(text) == Outcome(FALSE, LienScan(SplitLines(text)), None)

(***************************************************************************)
(* extract_id_judgement: the first line holding "case number" decides.     *)
(***************************************************************************)
RECURSIVE JudgementScan(_)
JudgementScan(lines) ==
    IF lines = <<>> THEN None
    ELSE LET line == Head(lines)
             low == Lower(line)
         IN  IF Contains(low, KwCaseNumber)
             THEN RemoveBlanks(Strip(
                      SliceFrom(line, Find(low, KwCaseNumber) + Len(KwCaseNumber)),
                      StripLien))
             ELSE JudgementScan(Tail(lines))

extract_id_judgement(text) ==
    Outcome(FALSE, JudgementScan(SplitLines(text)), None)

(***************************************************************************)
(* The date patterns of the extract_* functions that return a date:        *)
(* word boundary, digits, separator, digits, separator, digits, word       *)
(* boundary.  Every digit group is followed by a non-digit or a boundary,  *)
(* so a group matches exactly a maximal run of digits of an allowed length.*)
(***************************************************************************)
DatePat(lo1, hi1, sep, lo2, hi2, lo3, hi3) ==
    [lo1 |-> lo1, hi1 |-> hi1, sep |-> sep, lo2 |-> lo2, hi2 |-> hi2,
     lo3 |-> lo3, hi3 |-> hi3]

date_patterns ==
    << DatePat(1, 2, "/", 1, 2, 4, 4),
       DatePat(1, 2, "-", 1, 2, 4, 4),
       DatePat(1, 2, ".", 1, 2, 4, 4),
       DatePat(4, 4, "-", 1, 2, 1, 2),
       DatePat(4, 4, "/", 1, 2, 1, 2) >>

\* \d{lo,hi} at 0-based position p: the length of the digit run there
DigitRun(line, p) == RunLen(SliceFrom(line, p), DigitClass)

\* the third digit group at p3 and the closing word boundary
DateGroup3(line, p, p3, pat) ==
    LET r3 == DigitRun(line, p3)
    IN  IF /\ r3 >= pat.lo3 /\ r3 <= pat.hi3
           /\ (p3 + r3 = Len(line) \/ ~IsWord(line[p3 + r3 + 1]))
        THEN SubSeq(line, p + 1, p3 + r3)
        ELSE None

\* the second digit group at p2, the separator, and the rest
DateGroup2(line, p, p2, pat) ==
    LET r2 == DigitRun(line, p2)
    IN  IF /\ r2 >= pat.lo2 /\ r2 <= pat.hi2
           /\ p2 + r2 < Len(line) /\ line[p2 + r2 + 1] = pat.sep
        THEN DateGroup3(line, p, p2 + r2 + 1, pat)
        ELSE None

\* the text matched by pat at 0-based position p of line, or None
DateMatchAt(line, p, pat) ==
    LET r1 == DigitRun(line, p)
    IN  IF /\ (p = 0 \/ ~IsWord(line[p]))
           /\ r1 >= pat.lo1 /\ r1 <= pat.hi1
           /\ p + r1 < Len(line) /\ line[p + r1 + 1] = pat.sep
        THEN DateGroup2(line, p, p + r1 + 1, pat)
        ELSE None

\* re.search(pattern, line): the leftmost match, or None
DateSearchPat(line, pat) ==
    LET found == {m \in {<<p, DateMatchAt(line, p, pat)>> : p \in 0..Len(line)} :
                     m[2] # None}
    IN  IF found = {} THEN None
        ELSE (CHOOSE m \in found : \A n \in found : m[1] <= n[1])[2]

\* for pattern in date_patterns: the first pattern that matches wins
DateSearchFrom(line, k) ==
    LET found == {j \in k..Len(date_patterns) :
                     DateSearchPat(line, date_patterns[j]) # None}
    IN  IF found = {} THEN 0 ELSE CHOOSE j \in found : \A n \in found : j <= n

DateSearch(line) ==
    LET j == DateSearchFrom(line, 1)
    IN  IF j = 0 THEN None ELSE DateSearchPat(line, date_patterns[j])

(***************************************************************************)
(* extract_update_lien_cac_cavalry: the first line holding "number" sets   *)
(* case_number; the first line holding "on" with a date sets date_found;   *)
(* after the loop, a case_number that is still None is taken from the last *)
(* line through find("number:").                                           *)
(***************************************************************************)
\* one iteration of the loop over lines: <<case_number, date_found>>
UpdateLienStep(acc, line) ==
    LET low == Lower(line)
        case_number ==
            IF acc[1] = None /\ Contains(low, KwNumber)
            THEN Strip(SliceFrom(line, Find(low, KwNumber) + Len(KwNumber)),
                       StripUpdate)
            ELSE acc[1]
        date_found ==
            IF acc[2] = None /\ Contains(low, KwOn)
            THEN DateSearch(line)
            ELSE acc[2]
    IN  <<case_number, date_found>>

RECURSIVE UpdateLienLoop(_, _)
UpdateLienLoop(acc, lines) ==
    IF lines = <<>> THEN acc
    ELSE UpdateLienLoop(UpdateLienStep(acc, Head(lines)), Tail(lines))

\* the code after the loop, given the lines read and what the loop found
UpdateLienReturn(lines, case_number, date_found) ==
    IF case_number # None THEN Outcome(FALSE, case_number, date_found)
    \* no line was read: line_lower is unbound and the body raises
    ELSE IF lines = <<>> THEN Outcome(TRUE, None, None)
    \* find gives -1 when "number:" is absent: the slice then starts at 6
    ELSE Outcome(FALSE,
                 Strip(SliceFrom(lines[Len(lines)],
                                 Find(Lower(lines[Len(lines)]), KwNumberColon)
                                     + Len(KwNumberColon)),
                       StripUpdate),
                 date_found)

UpdateLienLines(lines, acc) == UpdateLienReturn(lines, acc[1], acc[2])

extract_update_lien_cac_cavalry(text) ==
    UpdateLienLines(SplitLines(text),
                    UpdateLienLoop(<<None, None>>, SplitLines(text)))

(***************************************************************************)
(* extract_md_judgements_cava: the first line holding "case number", or    *)
(* else "case no", sets case_number; the first line holding "on" with a    *)
(* date sets date_found.                                                   *)
(***************************************************************************)
\* what the line gives for case_number: the text after the keyword,
\* stripped of " .:_-", without its blanks
MdCavaCaseNumber(line, keyword) ==
    RemoveBlanks(Strip(SliceFrom(line, Find(Lower(line), keyword) + Len(keyword)),
                       StripLien))

\* a step that takes the date for the identifier
MdCavaStepSwapped(acc, line) ==
    <<IF acc[1] = None /\ Contains(Lower(line), KwOn)
      THEN DateSearch(line) ELSE acc[1],
      acc[2]>>

\* one iteration of the loop over lines: <<case_number, date_found>>
MdCavaStep(acc, line) ==
    <<IF acc[1] # None THEN acc[1]
      ELSE IF Contains(Lower(line), KwCaseNumber)
      THEN MdCavaCaseNumber(line, KwCaseNumber)
      ELSE IF Contains(Lower(line), KwCaseNo)
      THEN MdCavaCaseNumber(line, KwCaseNo)
      ELSE None,
      IF acc[2] = None /\ Contains(Lower(line), KwOn)
      THEN DateSearch(line) ELSE acc[2]>>

RECURSIVE MdCavaLoop(_, _)
MdCavaLoop(acc, lines) ==
    IF lines = <<>> THEN acc
    ELSE MdCavaLoop(MdCavaStep(acc, Head(lines)), Tail(lines))

\* return case_number, date_found
MdCavaReturn(acc) == Outcome(FALSE, acc[1], acc[2])

extract_md_judgements_cava(text) ==
    MdCavaReturn(MdCavaLoop(<<None, None>>, SplitLines(text)))

(***************************************************************************)
(* extract_va_judgements_lvnv, extract_va_judgements_cava and              *)
(* extract_judgements_mcm have one body.  The loop over the lines begins   *)
(* with the test "case_number in None", a membership test on None, which   *)
(* raises TypeError for the first line; a text without lines skips the     *)
(* loop, case_number is still None, and lines.index("Case") raises         *)
(* ValueError when no line is "Case".                                      *)
(***************************************************************************)
KwCaseLine == <<"C","a","s","e">>

\* the loop body is entered: case_number in None raises
CaseInNoneRaises(lines) == lines # <<>>

\* the code after the loop, when the loop raised nothing and left
\* case_number None: the line after the first line "Case"
CaseAfterLoop(lines) ==
    LET hits == {k \in DOMAIN lines : lines[k] = KwCaseLine}
    IN  IF hits = {} THEN Outcome(TRUE, None, None)
        ELSE LET id == CHOOSE k \in hits : \A j \in hits : k <= j
             IN  IF id + 1 > Len(lines) THEN Outcome(TRUE, None, None)
                 ELSE Outcome(FALSE, lines[id + 1], None)

extract_va_judgements_lvnv(text) ==
    IF CaseInNoneRaises(SplitLines(text)) THEN Outcome(TRUE, None, None)
    ELSE CaseAfterLoop(SplitLines(text))

extract_va_judgements_cava(text) == extract_va_judgements_lvnv(text)

extract_judgements_mcm(text) == extract_va_judgements_lvnv(text)

(***************************************************************************)
(* Extraction profiles: the id_keyword passed to process_pdf by            *)
(* browse_dismissal / browse_lien / browse_judgement, and the              *)
(* process_update_lien_cac_cavalry variant.                                *)
(***************************************************************************)
Profiles ==
    {"FileNo", "CaseNo", "Case Number", "update_lien_cac_cavalry",
     "md_judgements_cava", "va_judgements_lvnv", "va_judgements_cava",
     "judgements_mcm"}

\* the profiles with an orchestrator of their own, whose extractor returns
\* a case number and a date
IsCaseAndDate(profile) ==
    profile \in {"update_lien_cac_cavalry", "md_judgements_cava",
                 "va_judgements_lvnv", "va_judgements_cava", "judgements_mcm"}

\* "fileno" in id_keyword.lower() / "case number" in id_keyword.lower()
IsFileNo(profile) == profile = "FileNo"
IsCaseNumber(profile) == profile = "Case Number"

\* the extract_* call a page makes under the profile
Extract(profile, text) ==
    IF profile = "update_lien_cac_cavalry"
    THEN extract_update_lien_cac_cavalry(text)
    ELSE IF profile = "md_judgements_cava"
    THEN extract_md_judgements_cava(text)
    ELSE IF profile = "va_judgements_lvnv"
    THEN extract_va_judgements_lvnv(text)
    ELSE IF profile = "va_judgements_cava"
    THEN extract_va_judgements_cava(text)
    ELSE IF profile = "judgements_mcm"
    THEN extract_judgements_mcm(text)
    ELSE IF IsFileNo(profile) THEN extract_id_dismissal(text)
    ELSE IF IsCaseNumber(profile) THEN extract_id_judgement(text)
    ELSE extract_id_lien(text)

\* the extract_* results for the sample images, computed once
ExtractTable ==
    [p \in Profiles |-> [image \in Images |-> Extract(p, image_to_string[image])]]

(***************************************************************************)
(* File names.                                                             *)
(***************************************************************************)
PdfExt == <<".","p","d","f">>
CopyTag == <<"_","c","o","p","y">>
TempPrefix == <<"_","_","t","e","m","p","_","p","a","g","e","_">>
NoticeOfDismissal ==
    <<"N","o","t","i","c","e"," ","O","f"," ",
      "D","i","s","m","i","s","s","a","l">>

\* f"__temp_page_{i+1}.pdf"; pages are numbered from 1 here
TempName(page) == TempPrefix \o Digits(page) \o PdfExt

\* os.path.exists(os.path.join(base_path, filename))
Exists(fs, dir, name) == \E f \in fs : f.dir = dir /\ f.name = name

\* open(path, 'wb') and write: creates the file or replaces its content
WriteFile(fs, dir, name, content) ==
    {f \in fs : ~(f.dir = dir /\ f.name = name)}
        \cup {[dir |-> dir, name |-> name, content |-> content]}

\* os.remove(path)
RemoveFile(fs, dir, name) == {f \in fs : ~(f.dir = dir /\ f.name = name)}

\* the while loop of get_unique_filename, entered with the given counter
RECURSIVE UniqueLoop(_, _, _, _)
UniqueLoop(fs, dir, base_name, counter) ==
    LET filename == base_name \o CopyTag \o Digits(counter) \o PdfExt
    IN  IF Exists(fs, dir, filename)
        THEN UniqueLoop(fs, dir, base_name, counter + 1)
        ELSE filename

\* a namer that never probes the directory
get_unique_filename_noprobe(fs, dir, base_name) == base_name \o PdfExt

\* a namer whose counter starts at 0
get_unique_filename_from0(fs, dir, base_name) ==
    IF Exists(fs, dir, base_name \o PdfExt)
    THEN UniqueLoop(fs, dir, base_name, 0)
    ELSE base_name \o PdfExt

\* get_unique_filename(base_path, base_name, extension=".pdf"); the value is
\* the file name inside base_path
get_unique_filename(fs, dir, base_name) ==
    IF Exists(fs, dir, base_name \o PdfExt)
    THEN UniqueLoop(fs, dir, base_name, 1)
    ELSE base_name \o PdfExt

\* every document of a batch shares one output directory
OutputDirShared(index) == 0

\* output_dir = os.path.join(output_base, pdf_name): one directory per source
\* document, named after the document (file names in one folder differ)
OutputDir(index) == index

\* base_filename of process_pdf and of process_update_lien_cac_cavalry
BaseFilename(profile, id) ==
    IF IsCaseAndDate(profile) THEN id
    ELSE IF IsFileNo(profile) THEN id \o <<"_">> \o NoticeOfDismissal
    ELSE IF IsCaseNumber(profile) THEN id \o <<"_">>
    ELSE id

(***************************************************************************)
(* The log file: a sequence of entries.                                    *)
(***************************************************************************)
LogEntry(kind, context, pdf, page, id, msg, path) ==
    [kind |-> kind, context |-> context, pdf |-> pdf, page |-> page,
     id |-> id, msg |-> msg, path |-> path]

\* log_text(pdf_name, page_number, extracted_id, log_file_path, final_path)
log_text(logfile, pdf, page, id, path) ==
    Append(logfile,
           LogEntry("page", "", pdf, page, id,
                    IF Truthy(id) THEN "Extracted ID found:"
                                  ELSE "No ID extracted on this page.",
                    IF Truthy(id) THEN path ELSE None))

\* a log_exception that writes nothing
log_exception_silent(logfile, kind, context, pdf) == logfile

\* log_exception(context, error, log_file_path); kind tells the message
\* shapes apart ("file-level error in <pdf>:" for a page, the bare exception
\* for a document or the report)
log_exception(logfile, kind, context, pdf) ==
    Append(logfile, LogEntry(kind, context, pdf, 0, None, "ERROR in", None))

(***************************************************************************)
(* Records handed to the report builder.                                   *)
(***************************************************************************)
\* the columns create_general_report passes to pd.DataFrame
ReportColumns ==
    <<"Case Number", "Date Found", "Current Datestamp", "PDF Modified Date",
      "Source Path">>

EmptyStr == <<>>

\* the list appended to data_records for a page
PageRecord(profile, out, start_time, modified, pdf) ==
    IF IsCaseAndDate(profile)
    THEN << IF Truthy(out.id) THEN out.id ELSE EmptyStr,
            IF Truthy(out.date) THEN out.date ELSE EmptyStr,
            start_time, modified, pdf >>
    ELSE << IF Truthy(out.id) THEN out.id ELSE EmptyStr,
            start_time, modified, pdf >>

\* the context string the orchestrator passes to log_exception
Context(profile) ==
    IF profile = "update_lien_cac_cavalry"
    THEN "process_update_lien_cac_cavalry"
    ELSE IF profile = "md_judgements_cava"
    THEN "process_md_judgements_cava"
    ELSE IF profile = "va_judgements_lvnv"
    THEN "process_va_judgements_lvnv"
    ELSE IF profile = "va_judgements_cava"
    THEN "process_va_judgements_cava"
    ELSE IF profile = "judgements_mcm"
    THEN "process_judgements_mcm" ELSE "process_pdf"

(***************************************************************************)
(* Inputs: the folder of a batch.  A page carries the image it is         *)
(* rasterized to and the collaborator call that fails on it, if any:       *)
(* "raster" (convert_from_path raises), "ocr" (the OCR call inside         *)
(* extract_* raises), "write" (opening the output file raises), "none".    *)
(* "ocr_gpu" is the resource exhaustion of the EasyOCR reader: readtext    *)
(* raises on the accelerator the reader was built for, and would return on *)
(* the CPU.                                                                *)
(***************************************************************************)
PageKind(image, f) == [image |-> image, fault |-> f]

SampleImages(profile) ==
    IF profile = "update_lien_cac_cavalry"
    THEN <<"case_number", "no_keyword", "blank">>
    ELSE IF profile = "md_judgements_cava"
    THEN <<"case_number", "case_no_abc1", "no_keyword",
           "case_no_then_case_number">>
    ELSE IF profile \in {"va_judgements_lvnv", "va_judgements_cava",
                         "judgements_mcm"}
    THEN <<"case_token", "blank">>
    ELSE IF IsFileNo(profile)
    THEN <<"file_no", "file_no_dot", "no_keyword", "file_no_twice">>
    ELSE IF IsCaseNumber(profile)
    THEN <<"case_number", "case_number_bare", "no_keyword",
           "case_number_twice">>
    ELSE <<"case_no_abc1", "case_no_pending", "no_keyword",
           "caseno_then_case_no", "case_no_twice">>

SamplePages(profile) ==
    {PageKind(SampleImages(profile)[k], "none") :
        k \in DOMAIN SampleImages(profile)}
        \cup {PageKind(SampleImages(profile)[1], f) :
                 f \in {"raster", "ocr", "write"}}
        \cup (IF IsFileNo(profile)
              THEN {PageKind(SampleImages(profile)[1], "ocr_gpu")} ELSE {})

\* the OCR call of the extractor raises on the page
OcrRaises(page) == page.fault \in {"ocr", "ocr_gpu"}

SeqsUpTo(S, n) == UNION {[1..k -> S] : k \in 0..n}

Unopenable == [openable |-> FALSE, pages |-> <<>>]

Documents(profile) ==
    {Unopenable} \cup
    {[openable |-> TRUE, pages |-> ps] : ps \in SeqsUpTo(SamplePages(profile), MaxPages)}

RECURSIVE TotalPages(_)
TotalPages(docs) ==
    IF docs = <<>> THEN 0 ELSE Len(Head(docs).pages) + TotalPages(Tail(docs))

\* the folders of at most n documents with at most budget pages in all
RECURSIVE FoldersWithin(_, _, _)
FoldersWithin(profile, n, budget) ==
    IF n = 0 THEN {<<>>}
    ELSE {<<>>} \cup
         UNION {{<<doc>> \o rest :
                    rest \in FoldersWithin(profile, n - 1,
                                           budget - Len(doc.pages))} :
                doc \in {d \in Documents(profile) : Len(d.pages) <= budget}}

Folders(profile) == FoldersWithin(profile, MaxDocs, MaxTotalPages)

(***************************************************************************)
(* State of the GUI application and of its worker thread.                  *)
(***************************************************************************)
VARIABLES
    profile,           \* the extraction profile of the batch
    pdfs,              \* the PDFs of the chosen folder, in os.listdir order
    run,               \* how many batches have been started
    pc,                \* position of the worker thread
    idx,               \* worker: document position (1-based)
    i,                 \* process_*: page position (1-based)
    files,             \* files under the output directories
    log,               \* entries of the current batch's log file
    data_records,      \* process_*: records of the document being processed
    all_data_records,  \* worker: records of the batch
    processing,        \* SplitPDFApp.processing
    progressbar,       \* value last published: <<numerator, denominator>>
    dialog,            \* the messagebox the worker is showing
    name_requests,     \* history: the get_unique_filename calls made so far
    before,            \* history: files as they were when the batch started
    folder_isdir,      \* os.path.isdir(folder) for the chosen folder
    folder_files,      \* compressor: the files os.walk lists in the folder
    pdfs_to_compress,  \* compressor: the (in_path, out_path) pairs collected
    count,             \* compressor: files compressed so far
    message,           \* processing_state["message"]
    workers,           \* the worker threads started so far, and where each is
    frontend,          \* "gui" (app_tkinter.py) or "api" (app_api.py)
    folder_listable,   \* os.listdir(folder) returns for the chosen folder
    latest_log_file,   \* SplitPDFApp.latest_log_file: 0 (None), or the batch
                       \* whose log file it names
    extracted          \* what the profile's extract_* returns on each image

\* what the compressor adds to the state
compress_vars == <<folder_files, pdfs_to_compress, count, message>>

\* what the batch worker of one run never changes
other_vars ==
    <<compress_vars, workers, frontend, folder_listable, latest_log_file,
      extracted>>

\* the same without processing_state["message"]
fixed_vars ==
    <<folder_files, pdfs_to_compress, count, workers, frontend, folder_listable,
      extracted>>

vars == <<profile, pdfs, run, pc, idx, i, files, log, data_records,
          all_data_records, processing, progressbar, dialog, name_requests,
          before, folder_isdir, other_vars>>

\* the id_keyword values are handled by process_pdf, in the GUI and in the
\* API; the other profiles have an orchestrator of their own in the GUI
Frontends(p) == IF IsCaseAndDate(p) THEN {"gui"} ELSE {"gui", "api"}

\* the orchestrator has a branch that assigns extracted_id for the profile:
\* the API's process_pdf has one for "fileno" only
ExtractorSelected == frontend = "gui" \/ IsFileNo(profile)

\* the outcome of the extract_* call on the image of a page
Extracted(image) == extracted[image]

Init ==
    /\ profile \in Profiles
    /\ extracted = ExtractTable[profile]
    /\ frontend \in Frontends(profile)
    /\ \/ folder_isdir = TRUE /\ folder_listable = TRUE
             /\ pdfs \in Folders(profile)
       \/ folder_isdir = TRUE /\ folder_listable = FALSE /\ pdfs = <<>>
       \/ folder_isdir = FALSE /\ folder_listable = FALSE /\ pdfs = <<>>
    /\ folder_files = <<>>
    /\ pdfs_to_compress = <<>>
    /\ count = 0
    /\ message = ""
    /\ workers = <<>>
    /\ latest_log_file = 0
    /\ run = 0
    /\ pc = "idle"
    /\ idx = 0
    /\ i = 0
    /\ files = {}
    /\ log = <<>>
    /\ data_records = <<>>
    /\ all_data_records = <<>>
    /\ processing = FALSE
    /\ progressbar = <<0, 1>>
    /\ dialog = "none"
    /\ name_requests = <<>>
    /\ before = {}

total_files == Len(pdfs)
total_pages == Len(pdfs[idx].pages)
Page == pdfs[idx].pages[i]
\* datetime.now() formatted: the batch number stands for the clock
Now == Digits(run)

\* a timestamp that is taken for every page
pdf_modified_date_always(id, final_path) == Now

\* pdf_modified_date: "" unless an identifier was found and the page file
\* was written, and then the creation time of that file
pdf_modified_date(id, final_path) ==
    IF Truthy(id) /\ Truthy(final_path) THEN Now ELSE EmptyStr

\* a worker without its finally clause: the flag stays set
FinallyMissing == TRUE

\* finally: self.processing = False; processing_state["is_processing"] = False
Finally == FALSE

(***************************************************************************)
(* browse_* and run_type: a start request made while no batch runs starts  *)
(* the worker thread on the same folder.  This specification follows one   *)
(* worker at a time; SpecStart has the requests that arrive while a worker *)
(* is live.                                                                *)
(***************************************************************************)
Browse ==
    /\ frontend = "gui"
    /\ pc = "idle"
    /\ ~processing
    /\ run < MaxRuns
    /\ run' = run + 1
    /\ pc' = "worker"
    /\ before' = files
    /\ UNCHANGED <<other_vars, folder_isdir, profile, pdfs,
                   idx, i, files, log, data_records,
                   all_data_records, processing, progressbar, dialog,
                   name_requests>>

\* POST /splitter: the handler refuses a folder that is no directory, and
\* otherwise adds process_pdfs_background to the background tasks
process_pdfs_splitter ==
    /\ frontend = "api"
    /\ pc = "idle"
    /\ ~processing
    /\ run < MaxRuns
    /\ run' = run + 1
    /\ before' = files
    /\ IF folder_isdir
       THEN pc' = "worker" /\ UNCHANGED message
       ELSE pc' = "idle" /\ message' = "400: Invalid folder path"
    /\ UNCHANGED <<fixed_vars, latest_log_file,
                   folder_isdir, profile, pdfs, idx, i, files, log,
                   data_records, all_data_records, processing, progressbar,
                   dialog, name_requests>>

\* worker(): self.processing = True;
\* process_pdfs_background: is_processing = True, progress = 0.0
WorkerStart ==
    /\ pc = "worker"
    /\ processing' = TRUE
    /\ progressbar' = IF frontend = "api" THEN <<0, 1>> ELSE progressbar
    /\ pc' = "check"
    /\ UNCHANGED <<other_vars, folder_isdir, profile, pdfs,
                   run, idx, i, files, log, data_records,
                   all_data_records, dialog, name_requests, before>>

\* not os.path.isdir(folder): error dialog, return, finally
WorkerInvalidFolder ==
    /\ frontend = "gui"
    /\ pc = "check"
    /\ ~folder_isdir
    /\ dialog' = "Error: Invalid folder path."
    /\ pc' = "error_dialog"
    /\ UNCHANGED <<other_vars, folder_isdir, profile, pdfs, run, idx, i,
                   files, log, data_records, all_data_records, processing,
                   progressbar, name_requests, before>>

\* not pdfs: error dialog, return, finally
WorkerNoPdfs ==
    /\ frontend = "gui"
    /\ pc = "check"
    /\ folder_isdir
    /\ folder_listable
    /\ pdfs = <<>>
    /\ dialog' = "Error: No PDFs found."
    /\ pc' = "error_dialog"
    /\ UNCHANGED <<other_vars, folder_isdir, profile, pdfs, run, idx, i,
                   files, log, data_records, all_data_records, processing,
                   progressbar, name_requests, before>>

\* the error dialog is closed: return, and the finally clause
ErrorDismissed ==
    /\ pc = "error_dialog"
    /\ dialog' = "none"
    /\ processing' = Finally
    /\ pc' = "idle"
    /\ UNCHANGED <<other_vars, folder_isdir, profile, pdfs, run, idx, i,
                   files, log, data_records, all_data_records, progressbar,
                   name_requests, before>>

\* process_pdfs_background, not pdfs: the flag is cleared, the message set,
\* return, and the finally clause
ApiNoPdfs ==
    /\ frontend = "api"
    /\ pc = "check"
    /\ folder_listable
    /\ pdfs = <<>>
    /\ processing' = FALSE
    /\ message' = "No PDFs found in folder"
    /\ progressbar' = <<0, 1>>
    /\ pc' = "idle"
    /\ UNCHANGED <<fixed_vars, latest_log_file, folder_isdir, profile, pdfs,
                   run, idx, i,
                   files, log, data_records, all_data_records, dialog,
                   name_requests, before>>

\* os.listdir(folder) raises.  worker(): the outer except logs to the latest
\* log file (to error_fallback.log when there is none), no dialog is shown,
\* and the finally clause clears the flag.
\* process_pdfs_background: the outer except sets the message.
WorkerListdirError ==
    /\ pc = "check"
    /\ folder_isdir
    /\ ~folder_listable
    /\ IF frontend = "gui"
       THEN /\ log' = IF latest_log_file = 0 THEN log
                       ELSE log_exception(log, "worker_error", "run_type", 0)
            /\ UNCHANGED <<message, progressbar>>
       ELSE /\ message' = "Processing failed"
            /\ progressbar' = <<0, 1>>
            /\ UNCHANGED log
    /\ processing' = Finally
    /\ pc' = "idle"
    /\ UNCHANGED <<fixed_vars, latest_log_file, folder_isdir, profile, pdfs,
                   run, idx, i,
                   files, data_records, all_data_records, dialog,
                   name_requests, before>>

\* a new log file, all_data_records = [], first document.  worker():
\* progressbar 0.  process_pdfs_background: progress (idx / total_files) * 100
\* and the "Processing ..." message at the head of the loop.
WorkerSetup ==
    /\ pc = "check"
    /\ folder_isdir
    /\ folder_listable
    /\ pdfs # <<>>
    /\ log' = <<>>
    /\ progressbar' = IF frontend = "gui" THEN <<0, 1>> ELSE <<0, total_files>>
    /\ message' = IF frontend = "gui" THEN message ELSE "Processing"
    /\ latest_log_file' = IF frontend = "gui" THEN run ELSE latest_log_file
    /\ all_data_records' = <<>>
    /\ data_records' = <<>>
    /\ idx' = 1
    /\ i' = 0
    /\ pc' = "open"
    /\ UNCHANGED <<fixed_vars, folder_isdir, profile, pdfs,
                   run, files, processing, dialog,
                   name_requests, before>>

(***************************************************************************)
(* process_pdf / process_update_lien_cac_cavalry on document idx.          *)
(***************************************************************************)
\* where the worker goes when PdfReader raised: the except clause of
\* process_* logs and falls through to "return data_records"
AfterOpenFailureAbort == "report"
AfterOpenFailure == "return"

\* PdfReader(pdf_path) succeeds
OpenDocument ==
    /\ pc = "open"
    /\ pdfs[idx].openable
    /\ data_records' = <<>>
    /\ i' = 1
    /\ pc' = IF total_pages = 0 THEN "return" ELSE "page"
    /\ UNCHANGED <<other_vars, folder_isdir, profile, pdfs,
                   run, idx, files, log, all_data_records,
                   processing, progressbar, dialog, name_requests, before>>

\* PdfReader(pdf_path) raises: the outer except logs the exception
OpenDocumentFail ==
    /\ pc = "open"
    /\ ~pdfs[idx].openable
    /\ data_records' = <<>>
    /\ log' = log_exception(log, "doc_error", Context(profile), idx)
    /\ pc' = AfterOpenFailure
    /\ UNCHANGED <<other_vars, folder_isdir, profile, pdfs,
                   run, idx, i, files, all_data_records,
                   processing, progressbar, dialog, name_requests, before>>

\* for i, page in enumerate(reader.pages): the next page, or the loop ends
AfterPage(page, pages) == IF page < pages THEN "page" ELSE "return"

\* a page-level handler that leaves the page loop
AfterPageErrorAbort(page, pages) == "return"

\* where the loop goes from the page-level except clause: it only logs, so
\* the iteration ends like any other
AfterPageError(page, pages) == AfterPage(page, pages)

\* a progress value that counts the pages of the current document only
ProgressOfDocument(index, page, pages, n_files) == <<100 * page, pages>>

\* progress = ((index + (i + 1) / total_pages) / total_files) * 100, as the
\* fraction <<numerator, denominator>>; index counts the documents done and
\* page is i + 1
Progress(index, page, pages, n_files) ==
    <<100 * (index * pages + page), pages * n_files>>

\* the end of every loop iteration: progress_callback, then the next page
\* or the end of the loop
PageEnd(next_pc) ==
    /\ progressbar' = IF frontend = "gui"
                      THEN Progress(idx - 1, i, total_pages, total_files)
                      ELSE progressbar
    /\ i' = i + 1
    /\ pc' = next_pc
    /\ UNCHANGED <<other_vars, folder_isdir, profile, pdfs,
                   run, idx, all_data_records, processing,
                   dialog, before>>

\* convert_from_path raises: the temporary page file stays, the error is logged
PageRasterError ==
    /\ pc = "page"
    /\ Page.fault = "raster"
    /\ files' = WriteFile(files, OutputDir(idx), TempName(i), <<idx, i>>)
    /\ log' = log_exception(log, "page_error", Context(profile), idx)
    /\ UNCHANGED <<data_records, name_requests>>
    /\ PageEnd(AfterPageError(i, total_pages))

\* the extract_* body raises (the OCR call, or the code after it): its
\* handler calls log_exception with log_file_path=None, open(None) raises
\* in turn, and the page-level except logs that error
PageExtractError ==
    /\ pc = "page"
    /\ ExtractorSelected
    /\ Page.fault # "raster"
    /\ OcrRaises(Page) \/ Extracted(Page.image).raised
    /\ files' = RemoveFile(files, OutputDir(idx), TempName(i))
    /\ log' = log_exception(log, "page_error", Context(profile), idx)
    /\ UNCHANGED <<data_records, name_requests>>
    /\ PageEnd(AfterPageError(i, total_pages))

\* no branch assigned extracted_id: reading it raises UnboundLocalError
\* inside the page's try block, after the temporary file was removed, and
\* the page-level except logs the error
ApiPageUnbound ==
    /\ pc = "page"
    /\ ~ExtractorSelected
    /\ Page.fault # "raster"
    /\ files' = RemoveFile(files, OutputDir(idx), TempName(i))
    /\ log' = log_exception(log, "page_error", Context(profile), idx)
    /\ UNCHANGED <<data_records, name_requests>>
    /\ PageEnd(AfterPageError(i, total_pages))

\* the extractor returned nothing truthy: log_text(..., None), blank record
PageNoId ==
    /\ pc = "page"
    /\ ExtractorSelected
    /\ Page.fault # "raster"
    /\ ~OcrRaises(Page)
    /\ \E out \in {Extracted(Page.image)} :
           /\ ~out.raised
           /\ ~Truthy(out.id)
           /\ files' = RemoveFile(files, OutputDir(idx), TempName(i))
           /\ log' = log_text(log, idx, i, None, None)
           /\ data_records' =
                  Append(data_records,
                         PageRecord(profile, out, Now,
                                    pdf_modified_date(out.id, None), idx))
    /\ UNCHANGED name_requests
    /\ PageEnd(AfterPage(i, total_pages))

\* an identifier was found and the page is written under a unique name
PageWritten ==
    /\ pc = "page"
    /\ ExtractorSelected
    /\ Page.fault = "none"
    /\ \E out \in {Extracted(Page.image)} :
       LET fs == RemoveFile(files, OutputDir(idx), TempName(i))
           base == BaseFilename(profile, out.id)
           final_path == get_unique_filename(fs, OutputDir(idx), base)
       IN  /\ ~out.raised
           /\ Truthy(out.id)
           /\ files' = WriteFile(fs, OutputDir(idx), final_path, <<idx, i>>)
           /\ name_requests' =
                  Append(name_requests,
                         [pdf |-> idx, page |-> i, dir |-> OutputDir(idx),
                          base |-> base, id |-> out.id,
                          path |-> final_path, written |-> TRUE])
           /\ log' = log_text(log, idx, i, out.id, final_path)
           /\ data_records' =
                  Append(data_records,
                         PageRecord(profile, out, Now,
                                    pdf_modified_date(out.id, final_path), idx))
    /\ PageEnd(AfterPage(i, total_pages))

\* an identifier was found but open(final_path, 'wb') raises
PageWriteError ==
    /\ pc = "page"
    /\ ExtractorSelected
    /\ Page.fault = "write"
    /\ \E out \in {Extracted(Page.image)} :
       LET fs == RemoveFile(files, OutputDir(idx), TempName(i))
           base == BaseFilename(profile, out.id)
           final_path == get_unique_filename(fs, OutputDir(idx), base)
       IN  /\ ~out.raised
           /\ Truthy(out.id)
           /\ files' = fs
           /\ name_requests' =
                  Append(name_requests,
                         [pdf |-> idx, page |-> i, dir |-> OutputDir(idx),
                          base |-> base, id |-> out.id,
                          path |-> final_path, written |-> FALSE])
           /\ log' = log_exception(log, "page_error", Context(profile), idx)
    /\ UNCHANGED data_records
    /\ PageEnd(AfterPageError(i, total_pages))

\* an extend that puts the new records first
ExtendFront(all_records, records) == records \o all_records

\* all_data_records.extend(data_records)
Extend(all_records, records) == all_records \o records

\* process_* returns data_records; the worker extends all_data_records and
\* takes the next document, or builds the report after the last one
ReturnDocument ==
    /\ pc = "return"
    /\ all_data_records' = Extend(all_data_records, data_records)
    /\ IF idx < total_files
       THEN /\ idx' = idx + 1
            /\ pc' = "open"
            /\ progressbar' = IF frontend = "gui" THEN progressbar
                              ELSE <<100 * idx, total_files>>
       ELSE /\ idx' = idx
            /\ pc' = "report"
            /\ UNCHANGED progressbar
    /\ UNCHANGED <<other_vars, folder_isdir, profile, pdfs,
                   run, i, files, log, data_records,
                   processing, dialog, name_requests, before>>

\* pd.DataFrame(data_records, columns=[...]) accepts the rows
RowsFit(rows) == \A k \in DOMAIN rows : Len(rows[k]) = Len(ReportColumns)

\* create_general_report succeeds: the "Done" dialog names the report
ReportBuilt ==
    /\ frontend = "gui"
    /\ pc = "report"
    /\ RowsFit(all_data_records)
    /\ dialog' = "Done: Excel report"
    /\ pc' = "done_dialog"
    /\ UNCHANGED <<other_vars, folder_isdir, profile, pdfs, run, idx, i,
                   files, log, data_records, all_data_records, processing,
                   progressbar, name_requests, before>>

\* a handler that reports the failed report like a created one
ReportErrorDialogAsDone == "Done: Excel report"

\* the text of the "Done" dialog when create_general_report raised
ReportErrorDialog == "Done: Error creating report"

\* create_general_report raises (rows of the wrong width, or df.to_excel
\* fails): the error is logged and the "Done" dialog names it
ReportFailed ==
    /\ frontend = "gui"
    /\ pc = "report"
    /\ log' = log_exception(log, "report_error", "create_general_report", 0)
    /\ dialog' = ReportErrorDialog
    /\ pc' = "done_dialog"
    /\ UNCHANGED <<other_vars, folder_isdir, profile, pdfs, run, idx, i,
                   files, data_records, all_data_records, processing,
                   progressbar, name_requests, before>>

\* the "Done" dialog is closed: progressbar 0, and the finally clause
DoneDismissed ==
    /\ pc = "done_dialog"
    /\ dialog' = "none"
    /\ progressbar' = <<0, 1>>
    /\ processing' = Finally
    /\ pc' = "idle"
    /\ UNCHANGED <<other_vars, folder_isdir, profile, pdfs, run, idx, i,
                   files, log, data_records, all_data_records, name_requests,
                   before>>

\* CURRENT_PROCESSING["pdf"] is set: the page loop of a document has begun
\* a page and has not ended
CurrentProcessing(in_page) == pc = "page" /\ (i > 1 \/ in_page)

\* on_closing: a line is added to the latest log file, if there is one, and
\* root.destroy() ends the main loop and with it the process.  The worker is
\* a daemon thread and has no stop request to read: it dies where it is,
\* between two steps or in the middle of a page, when its temporary page
\* file is written and not yet removed.
on_closing ==
    /\ frontend = "gui"
    /\ pc # "exited"
    /\ \E in_page \in (IF pc = "page" THEN BOOLEAN ELSE {FALSE}) :
         /\ files' = IF in_page
                     THEN WriteFile(files, OutputDir(idx), TempName(i), <<idx, i>>)
                     ELSE files
         /\ log' = IF latest_log_file = 0 THEN log
                   ELSE IF CurrentProcessing(in_page)
                   THEN Append(log, LogEntry("closing", "", idx,
                                             IF in_page THEN i ELSE i - 1, None,
                                             "WARNING: Program closed while processing",
                                             None))
                   ELSE Append(log, LogEntry("closing", "", 0, 0, None,
                                             "Program closed normally.", None))
    /\ pc' = "exited"
    /\ UNCHANGED <<other_vars, folder_isdir, profile, pdfs, run, idx, i,
                   data_records, all_data_records, processing, progressbar,
                   dialog, name_requests, before>>

\* the columns create_splitter_report passes to pd.DataFrame
SplitterReportColumns ==
    <<"CaseNo/FileNo", "Current Datestamp", "PDF Modified Date", "Source Path">>

\* the finally clause of process_pdfs_background
ApiFinally ==
    /\ processing' = Finally
    /\ progressbar' = <<0, 1>>
    /\ pc' = "idle"
    /\ UNCHANGED <<fixed_vars, latest_log_file, folder_isdir, profile, pdfs,
                   run, idx, i,
                   files, log, data_records, all_data_records, dialog,
                   name_requests, before>>

\* create_splitter_report succeeds: the message names the report
ApiReportBuilt ==
    /\ frontend = "api"
    /\ pc = "report"
    /\ \A k \in DOMAIN all_data_records :
           Len(all_data_records[k]) = Len(SplitterReportColumns)
    /\ message' = "Processed PDFs. Report"
    /\ ApiFinally

\* create_splitter_report raises: the message names the error
ApiReportFailed ==
    /\ frontend = "api"
    /\ pc = "report"
    /\ message' = "Processed PDFs. Error creating report"
    /\ ApiFinally

Next ==
    \/ Browse
    \/ process_pdfs_splitter
    \/ ApiNoPdfs
    \/ WorkerListdirError
    \/ ApiReportBuilt
    \/ ApiReportFailed
    \/ on_closing
    \/ WorkerStart
    \/ WorkerInvalidFolder
    \/ WorkerNoPdfs
    \/ ErrorDismissed
    \/ WorkerSetup
    \/ OpenDocument
    \/ OpenDocumentFail
    \/ PageRasterError
    \/ PageExtractError
    \/ ApiPageUnbound
    \/ PageNoId
    \/ PageWritten
    \/ PageWriteError
    \/ ReturnDocument
    \/ ReportBuilt
    \/ ReportFailed
    \/ DoneDismissed

Spec == Init /\ [][Next]_vars

\* the steps of the worker thread, dialogs that are closed included
Worker ==
    \/ WorkerStart
    \/ WorkerInvalidFolder
    \/ WorkerNoPdfs
    \/ ErrorDismissed
    \/ ApiNoPdfs
    \/ WorkerListdirError
    \/ WorkerSetup
    \/ OpenDocument
    \/ OpenDocumentFail
    \/ PageRasterError
    \/ PageExtractError
    \/ ApiPageUnbound
    \/ PageNoId
    \/ PageWritten
    \/ PageWriteError
    \/ ReturnDocument
    \/ ReportBuilt
    \/ ReportFailed
    \/ DoneDismissed
    \/ ApiReportBuilt
    \/ ApiReportFailed

\* the worker thread is scheduled as long as the process lives, and every
\* call it makes returns or raises
SpecLive == Spec /\ WF_vars(Worker)
(***************************************************************************)
(* compress_pdfs_background (app_api.py): the output paths of all PDFs of  *)
(* the folder are requested first, then the files are compressed one by    *)
(* one.  Only the top directory of the walk is modelled: every directory   *)
(* of the walk has an output subfolder of its own.                         *)
(***************************************************************************)
NameX == <<"x">>
NameY == <<"y">>
UpperPdfExt == <<".","P","D","F">>
TxtExt == <<".","t","x","t">>

\* the file names a folder may hold
SampleNames == {NameX \o PdfExt, NameX \o UpperPdfExt, NameY \o PdfExt, NameX \o TxtExt}

\* os.walk's files of the folder: distinct names, in any order
FolderListings ==
    {fs \in SeqsUpTo(SampleNames, MaxInFiles) :
        \A j, k \in DOMAIN fs : j # k => fs[j] # fs[k]}

\* what the output folder may hold before the task starts
OutputFolders == {{}, {[dir |-> 0, name |-> NameX \o PdfExt, content |-> <<0, 0>>]}}

\* str.endswith(suffix)
EndsWith(s, suffix) == OccursAt(s, suffix, Len(s) - Len(suffix))

\* os.path.splitext(f)[0] for a name with one dot, not in first place
SplitExtRoot(f) == SubSeq(f, 1, Find(f, <<".">>))

InitCompress ==
    /\ profile = "compressor"
    /\ pdfs = <<>>
    /\ folder_isdir = TRUE
    /\ run = 0
    /\ pc = "c_idle"
    /\ idx = 0
    /\ i = 0
    /\ files \in OutputFolders
    /\ log = <<>>
    /\ data_records = <<>>
    /\ all_data_records = <<>>
    /\ processing = FALSE
    /\ progressbar = <<0, 1>>
    /\ dialog = "none"
    /\ name_requests = <<>>
    /\ before = {}
    /\ folder_files \in FolderListings
    /\ pdfs_to_compress = <<>>
    /\ count = 0
    /\ message = ""
    /\ workers = <<>>
    /\ frontend = "api"
    /\ folder_listable = TRUE
    /\ latest_log_file = 0
    /\ extracted = <<>>

\* what the compressor leaves alone
compress_frame == <<profile, pdfs, folder_isdir, run, idx, data_records,
                    all_data_records, dialog, before, folder_files, workers,
                    frontend, folder_listable, latest_log_file, extracted>>

\* is_processing = True, progress 0, a new log file, the walk begins
CompressStart ==
    /\ pc = "c_idle"
    /\ processing' = TRUE
    /\ progressbar' = <<0, 1>>
    /\ log' = <<>>
    /\ pdfs_to_compress' = <<>>
    /\ i' = 1
    /\ pc' = "c_collect"
    /\ UNCHANGED <<compress_frame, files, name_requests, count, message>>

\* one file of the walk: a PDF gets its output path from get_unique_filename
CollectPath ==
    /\ pc = "c_collect"
    /\ i <= Len(folder_files)
    /\ \E f \in {folder_files[i]} :
         IF EndsWith(Lower(f), PdfExt)
         THEN \E out_path \in {get_unique_filename(files, 0, SplitExtRoot(f))} :
                /\ pdfs_to_compress' = Append(pdfs_to_compress, <<f, out_path>>)
                /\ name_requests' =
                       Append(name_requests,
                              [pdf |-> 0, page |-> i, dir |-> 0,
                               base |-> SplitExtRoot(f), id |-> SplitExtRoot(f),
                               path |-> out_path, written |-> FALSE])
         ELSE UNCHANGED <<pdfs_to_compress, name_requests>>
    /\ i' = i + 1
    /\ UNCHANGED <<compress_frame, files, log, processing, progressbar, pc,
                   count, message>>

\* the walk is over: the compression loop begins
CollectDone ==
    /\ pc = "c_collect"
    /\ i > Len(folder_files)
    /\ count' = 0
    /\ i' = 1
    /\ pc' = "c_compress"
    /\ UNCHANGED <<compress_frame, files, log, processing, progressbar,
                   name_requests, pdfs_to_compress, message>>

\* Ghostscript writes the compressed file to out_path; the pair is logged
CompressOne ==
    /\ pc = "c_compress"
    /\ i <= Len(pdfs_to_compress)
    /\ progressbar' = <<100 * i, Len(pdfs_to_compress)>>
    /\ message' = "Compressing"
    /\ files' = WriteFile(files, 0, pdfs_to_compress[i][2], pdfs_to_compress[i][1])
    /\ count' = count + 1
    /\ log' = Append(log, LogEntry("compressed", "", pdfs_to_compress[i][1], 0,
                                   None, "Compressed PDF file:",
                                   pdfs_to_compress[i][2]))
    /\ i' = i + 1
    /\ UNCHANGED <<compress_frame, processing, pc, name_requests,
                   pdfs_to_compress>>

\* Ghostscript returns a non-zero code: the error is logged, the loop goes on
CompressOneFail ==
    /\ pc = "c_compress"
    /\ i <= Len(pdfs_to_compress)
    /\ progressbar' = <<100 * i, Len(pdfs_to_compress)>>
    /\ message' = "Compressing"
    /\ log' = log_exception(log, "compress_error", "compress_pdfs_background",
                            pdfs_to_compress[i][1])
    /\ i' = i + 1
    /\ UNCHANGED <<compress_frame, files, processing, pc, name_requests,
                   pdfs_to_compress, count>>

\* the loop is over: the final message, then the finally clause
CompressDone ==
    /\ pc = "c_compress"
    /\ i > Len(pdfs_to_compress)
    /\ message' = "Successfully compressed"
    /\ processing' = FALSE
    /\ progressbar' = <<0, 1>>
    /\ pc' = "c_done"
    /\ UNCHANGED <<compress_frame, files, log, i, name_requests,
                   pdfs_to_compress, count>>

NextCompress ==
    \/ CompressStart
    \/ CollectPath
    \/ CollectDone
    \/ CompressOne
    \/ CompressOneFail
    \/ CompressDone

SpecCompress == InitCompress /\ [][NextCompress]_vars

(***************************************************************************)
(* Start requests and worker threads.  browse_* and the POST handlers test *)
(* the processing flag and start a worker; the worker sets the flag in its *)
(* first statement and clears it in its finally clause.  Each worker is    *)
(* followed through its flag updates and document by document; requests    *)
(* arrive at any time.                                                     *)
(***************************************************************************)
InitStart ==
    /\ profile = "FileNo"
    /\ frontend \in {"gui", "api"}
    /\ pdfs = <<>>
    /\ folder_isdir = TRUE
    /\ folder_listable = TRUE
    /\ run = 0
    /\ pc = "idle"
    /\ idx = 0
    /\ i = 0
    /\ files = {}
    /\ log = <<>>
    /\ data_records = <<>>
    /\ all_data_records = <<>>
    /\ processing = FALSE
    /\ progressbar = <<0, 1>>
    /\ dialog = "none"
    /\ name_requests = <<>>
    /\ before = {}
    /\ folder_files = <<>>
    /\ pdfs_to_compress = <<>>
    /\ count = 0
    /\ message = ""
    /\ workers = <<>>
    /\ latest_log_file = 0
    /\ extracted = ExtractTable[profile]

\* what the workers of the requests never change
start_fixed == <<latest_log_file, extracted, profile, frontend, pdfs,
                 folder_isdir, folder_listable, run, pc, idx, i, log,
                 data_records, all_data_records, progressbar, before,
                 folder_files, pdfs_to_compress, count>>

\* what requests and flag updates leave alone
start_frame == <<start_fixed, files, name_requests>>

\* threading.Thread(target=worker).start(), background_tasks.add_task(...):
\* a worker on a folder with n matching PDFs, its first statement not yet run
StartWorker(n) ==
    Append(workers, [at |-> "started", docs |-> n, path |-> None])

\* browse_*, POST /splitter: refused when the flag is set, and otherwise a
\* worker is started
StartRequest ==
    /\ IF processing
       THEN /\ dialog' = IF frontend = "gui"
                         THEN "Wait: A process is already running." ELSE dialog
            /\ message' = IF frontend = "api"
                          THEN "400: Another operation is already in progress"
                          ELSE message
            /\ UNCHANGED workers
       ELSE /\ Len(workers) < MaxWorkers
            /\ \E n \in 0..MaxDocs : workers' = StartWorker(n)
            /\ UNCHANGED <<dialog, message>>
    /\ UNCHANGED <<start_frame, processing>>

\* the first statement of the worker: the flag is set
WorkerSetsFlag(w) ==
    /\ workers[w].at = "started"
    /\ processing' = TRUE
    /\ workers' = [workers EXCEPT ![w].at = "try"]
    /\ UNCHANGED <<start_frame, dialog, message>>

\* the PDFs of the folder are one page long and show the "File No: 123-ABC"
\* sample; a worker with n documents left is at the n-th PDF from the end
StartPageId == Extracted("file_no").id

\* the page of the worker's document: get_unique_filename has returned, and
\* the output file is not opened yet
WorkerNamesPage(w) ==
    /\ workers[w].at = "try"
    /\ workers[w].docs > 0
    /\ workers' = [workers EXCEPT
                      ![w].at = "named",
                      ![w].path = get_unique_filename(
                                      files, OutputDir(workers[w].docs),
                                      BaseFilename(profile, StartPageId))]
    /\ UNCHANGED <<start_frame, processing, dialog, message>>

\* one iteration of the loop over the PDFs ends: open(final_path, 'wb') and
\* writer.write put the page under the name chosen before
WorkerDocument(w) ==
    /\ workers[w].at = "named"
    /\ files' = WriteFile(files, OutputDir(workers[w].docs), workers[w].path,
                          <<w, workers[w].docs>>)
    /\ name_requests' =
           Append(name_requests,
                  [pdf |-> workers[w].docs, page |-> 1,
                   dir |-> OutputDir(workers[w].docs),
                   base |-> BaseFilename(profile, StartPageId),
                   id |-> StartPageId, path |-> workers[w].path,
                   written |-> TRUE])
    /\ workers' = [workers EXCEPT ![w].at = "try", ![w].docs = @ - 1,
                                  ![w].path = None]
    /\ UNCHANGED <<start_fixed, processing, dialog, message>>

\* no PDF is left (or none was found): the finally clause clears the flag
WorkerFinally(w) ==
    /\ workers[w].at = "try"
    /\ workers[w].docs = 0
    /\ processing' = Finally
    /\ workers' = [workers EXCEPT ![w].at = "ended"]
    /\ UNCHANGED <<start_frame, dialog, message>>

NextStart ==
    \/ StartRequest
    \/ \E w \in DOMAIN workers : WorkerSetsFlag(w)
    \/ \E w \in DOMAIN workers : WorkerNamesPage(w)
    \/ \E w \in DOMAIN workers : WorkerDocument(w)
    \/ \E w \in DOMAIN workers : WorkerFinally(w)

SpecStart == InitStart /\ [][NextStart]_vars

(***************************************************************************)
(* Properties.                                                             *)
(***************************************************************************)
\* the name the k-th request for a base is expected to get
CopyName(base, k) ==
    IF k = 1 THEN base \o PdfExt
    ELSE base \o CopyTag \o Digits(k - 1) \o PdfExt

\* name ends in _copyK.pdf for some K >= 1
HasCopySuffix(name) ==
    \E k \in 1..Len(name) :
        EndsWith(name, CopyTag \o Digits(k) \o PdfExt)

\* name is a temporary page file
IsTempName(name) == OccursAt(name, TempPrefix, 0)

\* the requests made so far for one directory and base name, in order
RequestsFor(dir, base) ==
    SelectSeq(name_requests, LAMBDA r : r.dir = dir /\ r.base = base)

\* the names of the output PDFs in a directory
OutputNames(dir) == {f.name : f \in {g \in files : g.dir = dir /\ ~IsTempName(g.name)}}

ABC1 == <<"A","B","C","1">>

\* C1: the requests for one directory and base name, each followed by the
\* write of the returned path, get pairwise distinct names: the first
\* base.pdf, the k-th base_copy(k-1).pdf.
C1_NamerSequence ==
    \A q \in Range(name_requests) :
        \A k \in DOMAIN RequestsFor(q.dir, q.base) :
            (\A j \in 1..(k - 1) : RequestsFor(q.dir, q.base)[j].written)
                => /\ RequestsFor(q.dir, q.base)[k].path = CopyName(q.base, k)
                   /\ \A j \in 1..(k - 1) :
                          RequestsFor(q.dir, q.base)[j].path
                              # RequestsFor(q.dir, q.base)[k].path

\* three written requests for one directory and base name
C1_Witness ==
    \E q \in Range(name_requests) :
        /\ Len(RequestsFor(q.dir, q.base)) >= 3
        /\ \A k \in 1..3 : RequestsFor(q.dir, q.base)[k].written

ThreeABC1Pages ==
    /\ profile = "CaseNo"
    /\ run = 1
    /\ pc = "report"
    /\ Len(pdfs) = 2
    /\ Len(name_requests) = 3
    /\ \A k \in 1..3 : name_requests[k].id = ABC1 /\ name_requests[k].written
    /\ {name_requests[k].pdf : k \in 1..3} = {1, 2}

C2_Reserved ==
    \A j, k \in DOMAIN pdfs_to_compress :
        (j < k /\ SplitExtRoot(pdfs_to_compress[j][1])
                    = SplitExtRoot(pdfs_to_compress[k][1]))
            => pdfs_to_compress[j][2] # pdfs_to_compress[k][2]

\* C5 as stated: the records returned for a document that can be opened
\* are as many as its pages.
C5_OneRecordPerPage ==
    (pc = "return" /\ pdfs[idx].openable) => Len(data_records) = total_pages

\* C6: a page step appends exactly one entry to the log, a page entry or an
\* ERROR entry, and leaves the entries before it as they were.
C6_OneLogEntryPerPage ==
    [][(pc = "page" /\ pc' # "exited") =>
          /\ Len(log') = Len(log) + 1
          /\ SubSeq(log', 1, Len(log)) = log
          /\ log'[Len(log')].kind \in {"page", "page_error"}]_vars

\* a page has failed and the log holds its ERROR entry and a page entry
C6_Witness ==
    /\ pc \in {"page", "return"}
    /\ Len(log) >= 2
    /\ \E j, k \in DOMAIN log : log[j].kind = "page_error" /\ log[k].kind = "page"

\* the page-level entries the log holds for a document
PageEntries(m) ==
    Cardinality({k \in DOMAIN log :
                    log[k].pdf = m /\ log[k].kind \in {"page", "page_error"}})

\* the document-level ERROR entries the log holds for a document
DocErrors(m) ==
    Cardinality({k \in DOMAIN log : log[k].pdf = m /\ log[k].kind = "doc_error"})

\* the records of the batch that name a document
RecordsOf(m) ==
    {k \in DOMAIN all_data_records :
        all_data_records[k][Len(all_data_records[k])] = m}

\* C7: when the documents of a batch are done, a document that could not be
\* opened has one document-level ERROR entry and no record, and every page
\* of every later document has been processed.
C7_UnopenableDocument ==
    pc = "report" =>
        \A k \in DOMAIN pdfs :
            ~pdfs[k].openable =>
                /\ DocErrors(k) = 1
                /\ PageEntries(k) = 0
                /\ RecordsOf(k) = {}
                /\ \A m \in (k + 1)..Len(pdfs) :
                       pdfs[m].openable => PageEntries(m) = Len(pdfs[m].pages)

\* the first of two documents could not be opened, the second has pages
C7_Witness ==
    /\ pc = "report"
    /\ Len(pdfs) = 2
    /\ ~pdfs[1].openable
    /\ pdfs[2].openable
    /\ Len(pdfs[2].pages) = 2
    /\ DocErrors(1) = 1

\* rasterization, extraction or the write raises on the page
Fails(p) ==
    \/ p.fault = "raster"
    \/ ~ExtractorSelected
    \/ OcrRaises(p)
    \/ Extracted(p.image).raised
    \/ p.fault = "write" /\ Truthy(Extracted(p.image).id)

\* the ERROR entries the log holds for the pages of a document
PageErrors(m) ==
    Cardinality({k \in DOMAIN log : log[k].pdf = m /\ log[k].kind = "page_error"})

\* C8: every failing page is logged and the loops go on: in the page loop
\* all pages before the current one have their entry, and when the
\* documents are done every page of every opened document has its entry,
\* an ERROR entry for each page that failed.
C8_PageFailureContinues ==
    /\ pc = "page" => PageEntries(idx) = i - 1
    /\ pc = "report" =>
           \A m \in DOMAIN pdfs :
               pdfs[m].openable =>
                   /\ PageEntries(m) = Len(pdfs[m].pages)
                   /\ PageErrors(m) =
                          Cardinality({j \in DOMAIN pdfs[m].pages :
                                          Fails(pdfs[m].pages[j])})

\* the first page of a document failed and its second page was processed
C8_Witness ==
    /\ pc = "report"
    /\ \E m \in DOMAIN pdfs :
          /\ pdfs[m].openable
          /\ Len(pdfs[m].pages) = 2
          /\ Fails(pdfs[m].pages[1])
          /\ ~Fails(pdfs[m].pages[2])
          /\ \E k \in DOMAIN log :
                log[k].pdf = m /\ log[k].kind = "page" /\ log[k].page = 2

\* the identifier holds a digit
HasDigit(id) == \E k \in DOMAIN id : IsDigit(id[k])

HasKeyword(p, text) ==
    IF p = "update_lien_cac_cavalry" THEN Contains(Lower(text), KwNumber)
    ELSE IF p = "md_judgements_cava"
    THEN Contains(Lower(text), KwCaseNumber) \/ Contains(Lower(text), KwCaseNo)
    ELSE IF IsFileNo(p)
    THEN \E k \in 0..Len(text) :
            /\ OccursAt(Lower(text), KwFile, k)
            /\ OccursAt(Lower(text), KwNo,
                        k + 4 + RunLen(SliceFrom(text, k + 4), SpaceClass))
    ELSE IF IsCaseNumber(p) THEN Contains(Lower(text), KwCaseNumber)
    ELSE Contains(Lower(text), KwCaseNo) \/ Contains(Lower(text), KwCaseno)

\* C10 as stated: a page whose text holds none of the profile's keywords
\* gets no output file, a page entry reading "No ID extracted on this
\* page." and a record with an empty identifier.
C10_NoKeywordNoId ==
    /\ \A r \in Range(name_requests) :
           HasKeyword(profile, image_to_string[pdfs[r.pdf].pages[r.page].image])
    /\ pc = "report" =>
           \A m \in DOMAIN pdfs : \A j \in DOMAIN pdfs[m].pages :
               (pdfs[m].pages[j].fault = "none"
                   /\ ~HasKeyword(profile,
                                   image_to_string[pdfs[m].pages[j].image])) =>
                   \E k \in DOMAIN log :
                       /\ log[k].pdf = m
                       /\ log[k].page = j
                       /\ log[k].kind = "page"
                       /\ log[k].msg = "No ID extracted on this page."

\* the workers that were started and have not ended
Running == {w \in DOMAIN workers : workers[w].at # "ended"}

\* C11 as stated: at most one batch is running at any time, whatever the
\* interleaving of the start requests with the workers.
C11_AtMostOneRunning == Cardinality(Running) <= 1

\* C12 as stated: a stop request takes effect between pages and ends the
\* batch: the output files are as they were (nothing of a page in progress
\* is left behind), the log keeps its entries, and the batch is no longer
\* running.
C12_StopsBetweenPages ==
    [][(processing /\ pc # "exited" /\ pc' = "exited") =>
          /\ files' = files
          /\ SubSeq(log', 1, Len(log)) = log
          /\ ~processing']_vars

\* C13 as stated: a page on which the EasyOCR call fails by resource
\* exhaustion, and on which a CPU-only call would succeed, is not marked
\* failed: when the documents are done the log holds its page entry.
C13_RetriedOnCpu ==
    pc = "report" =>
        \A m \in DOMAIN pdfs : \A j \in DOMAIN pdfs[m].pages :
            (pdfs[m].openable /\ pdfs[m].pages[j].fault = "ocr_gpu") =>
                \E k \in DOMAIN log :
                    log[k].pdf = m /\ log[k].page = j /\ log[k].kind = "page"

\* the pages of a document that get a record, in page order
RecordedPages(m) ==
    IF pdfs[m].openable
    THEN SelectSeq(pdfs[m].pages, LAMBDA p : ~Fails(p))
    ELSE <<>>

\* document and identifier of the rows expected for the first m documents,
\* in document-then-page order
RECURSIVE ExpectedKeys(_)
ExpectedKeys(m) ==
    IF m = 0 THEN <<>>
    ELSE ExpectedKeys(m - 1) \o
         [k \in 1..Len(RecordedPages(m)) |->
             <<m, IF Truthy(Extracted(RecordedPages(m)[k].image).id)
                  THEN Extracted(RecordedPages(m)[k].image).id
                  ELSE EmptyStr>>]

\* document and identifier of the rows handed to the report builder
RowKeys ==
    [k \in DOMAIN all_data_records |->
        <<all_data_records[k][Len(all_data_records[k])], all_data_records[k][1]>>]

\* C14: the page entries of the log are in strictly ascending
\* document-then-page order, no log entry names an earlier document than the
\* entry before it, and the rows handed to the report builder are the
\* recorded pages in document-then-page order.
C14_DocumentThenPageOrder ==
    pc \in {"page", "return", "open", "report"} =>
        /\ \A j, k \in DOMAIN log :
               j < k =>
                   /\ log[j].pdf <= log[k].pdf
                   /\ (log[j].kind = "page" /\ log[k].kind = "page")
                          => \/ log[j].pdf < log[k].pdf
                             \/ log[j].page < log[k].page
        /\ pc = "report" => RowKeys = ExpectedKeys(Len(pdfs))

\* both documents of a batch have rows, three in all, under two identifiers
C14_Witness ==
    /\ pc = "report"
    /\ Len(all_data_records) = 3
    /\ all_data_records[1][Len(all_data_records[1])] = 1
    /\ all_data_records[3][Len(all_data_records[3])] = 2
    /\ Cardinality({all_data_records[k][1] : k \in 1..3}) >= 2

\* C15: the step that builds the report leaves the output files and the
\* log entries written so far as they are; a report that cannot be built
\* (rows that do not fit the columns) is reported as "Error creating
\* report", by the "Done" dialog of the GUI or the final message of the API;
\* and the batch then ends with the processing flag cleared, in that step
\* in the API and when the dialog is closed in the GUI.
C15_ReportFailureKeepsOutput ==
    [][/\ (pc = "report" /\ pc' # "exited") =>
            /\ files' = files
            /\ SubSeq(log', 1, Len(log)) = log
            /\ frontend = "gui" =>
                   /\ pc' = "done_dialog"
                   /\ dialog' \in {"Done: Excel report", "Done: Error creating report"}
                   /\ ~RowsFit(all_data_records)
                          => dialog' = "Done: Error creating report"
            /\ frontend = "api" =>
                   /\ pc' = "idle"
                   /\ ~processing'
                   /\ message' \in {"Processed PDFs. Report",
                                    "Processed PDFs. Error creating report"}
       /\ (pc = "done_dialog" /\ pc' # "exited") =>
            /\ files' = files
            /\ log' = log
            /\ pc' = "idle"
            /\ ~processing']_vars

\* the report of a batch that wrote files and log entries could not be
\* built, and the batch has ended
C15_Witness ==
    /\ pc = "idle"
    /\ ~processing
    /\ files # {}
    /\ Len(log) >= 2
    /\ \/ frontend = "gui" /\ log[Len(log)].kind = "report_error"
       \/ frontend = "api" /\ message = "Processed PDFs. Error creating report"

\* C16 as stated: every page step publishes the progress
\* ((index + (i+1)/total_pages) / total_files) * 100, with index = idx - 1
\* and i + 1 the number of the page, here as numerator and denominator.
C16_ProgressPerPage ==
    [][(pc = "page" /\ pc' # "exited") =>
          progressbar' = <<100 * ((idx - 1) * total_pages + i),
                           total_pages * total_files>>]_vars

\* C17: a started worker eventually ends with the processing flag reset,
\* on every exit path, unless the process is ended first; and whenever no
\* worker is live the flag is reset.
C17_WorkerEnds ==
    /\ [](pc = "idle" => ~processing)
    /\ (pc = "worker") ~> ((pc = "idle" /\ ~processing) \/ pc = "exited")

\* a worker that was started has ended
C17_Witness ==
    /\ pc = "idle"
    /\ ~processing
    /\ run >= 1
    /\ folder_isdir

\* C18 as stated: the step that ends a worker delivers a final status: in
\* the GUI it closes a dialog the worker has shown, in the API it leaves a
\* final message.
C18_FinalStatus ==
    [][(pc \notin {"idle", "exited"} /\ pc' = "idle") =>
          IF frontend = "gui"
          THEN dialog # "none"
          ELSE message' \in {"No PDFs found in folder", "Processing failed",
                             "Processed PDFs. Report",
                             "Processed PDFs. Error creating report"}]_vars

XYZ7890 == <<"X","Y","Z","7","8","9","0">>
Date04252025 == <<"0","4","/","2","5","/","2","0","2","5">>

\* C19: under the md_judgements_cava profile the page whose text is
\* "Case Number: XYZ7890" / "Filed on 04/25/2025" gets the identifier
\* "XYZ7890" and the date "04/25/2025": the extractor returns them, the
\* output file is requested under that identifier and the record of the
\* page holds both.
C19_CaseNumberAndDate ==
    profile = "md_judgements_cava" =>
        /\ image_to_string["case_number"] = TextCaseNumber
        /\ Extracted("case_number") = Outcome(FALSE, XYZ7890, Date04252025)
        /\ \A r \in Range(name_requests) :
               pdfs[r.pdf].pages[r.page].image = "case_number" => r.id = XYZ7890
        /\ (/\ pc \in {"page", "return"}
            /\ data_records # <<>>
            /\ pdfs[idx].pages[1] = PageKind("case_number", "none"))
               => /\ data_records[1][1] = XYZ7890
                  /\ data_records[1][2] = Date04252025

\* the page has been processed and has its record
C19_Witness ==
    /\ profile = "md_judgements_cava"
    /\ pc = "return"
    /\ data_records # <<>>
    /\ pdfs[idx].pages[1] = PageKind("case_number", "none")
    /\ data_records[1][1] = XYZ7890
    /\ data_records[1][2] = Date04252025

\* C20 as stated: when a batch has ended, no output subdirectory holds a
\* temporary page file: every file in it is an identifier-named page.
C20_NoTempFilesLeft ==
    (pc = "idle" /\ run >= 1) => \A f \in files : ~IsTempName(f.name)

\* the columns of the report builder the front end passes its records to
BuilderColumns ==
    IF frontend = "gui" THEN ReportColumns ELSE SplitterReportColumns

\* C21 as stated: when the batch reaches its report step with at least one
\* recorded page, every record is as wide as the report builder has columns,
\* so that the report is built with one row per recorded page.
C21_RecordWidthFitsReport ==
    (pc = "report" /\ all_data_records # <<>>)
        => \A k \in DOMAIN all_data_records :
               Len(all_data_records[k]) = Len(BuilderColumns)

\* the identifiers of the sample texts with two keyword lines
ID11 == <<"1", "1">>
ID22 == <<"2", "2">>

\* the page of a get_unique_filename call shows the image
RequestOn(r, image) == pdfs[r.pdf].pages[r.page].image = image

\* C22 as stated: on a page where two keyword variants of the profile occur,
\* the page is named after the token following the variant declared first
\* ("case no" before "caseno", "case number" before "case no"), although the
\* other variant stands on the earlier line.
C22_DeclarationOrderWins ==
    \A r \in Range(name_requests) :
        /\ (profile = "CaseNo" /\ RequestOn(r, "caseno_then_case_no"))
               => r.id = ID22
        /\ (profile = "md_judgements_cava"
               /\ RequestOn(r, "case_no_then_case_number"))
               => r.id = ID22

\* the sample images whose text holds the profile's keyword on two lines,
\* the first time without a token after it and the second time with one
KeywordTwice ==
    IF IsFileNo(profile) THEN "file_no_twice"
    ELSE IF IsCaseNumber(profile) THEN "case_number_twice"
    ELSE "case_no_twice"

\* C23 as stated: when nothing valid follows the first occurrence of the
\* keyword on a page, the page has no identifier: no output name is ever
\* asked for it, and the later occurrence of the keyword is not used.
C23_OnlyFirstOccurrence ==
    profile \in {"FileNo", "CaseNo", "Case Number"} =>
        \A r \in Range(name_requests) : ~RequestOn(r, KeywordTwice)

\* C24 as stated: no two page writes ever target the same output path,
\* whatever the interleaving of the start requests and of the workers.
C24_NoTwoWritesToOnePath ==
    \A a, b \in DOMAIN name_requests :
        (a # b /\ name_requests[a].written /\ name_requests[b].written)
            => ~(/\ name_requests[a].dir = name_requests[b].dir
                 /\ name_requests[a].path = name_requests[b].path)

\* the record appended by a step, and its file-creation timestamp
NewRecord == data_records'[Len(data_records')]
NewRecordStamp == NewRecord[Len(NewRecord) - 1]

\* C25: whenever the orchestrator appends a record, either the record has an
\* identifier, a timestamp, and the step wrote exactly one new file, the page
\* itself, at the path the unique namer returned for that page; or the
\* record has neither identifier nor timestamp, and the step asked for no
\* name and wrote no file.
C25_RecordMatchesFile ==
    [][(pc = "page" /\ Len(data_records') = Len(data_records) + 1) =>
          \/ /\ NewRecord[1] # EmptyStr
             /\ NewRecordStamp # EmptyStr
             /\ Len(name_requests') = Len(name_requests) + 1
             /\ LET r == name_requests'[Len(name_requests')]
                IN  /\ r.pdf = idx /\ r.page = i /\ r.written
                    /\ r.id = NewRecord[1]
                    /\ r.path = get_unique_filename(files, r.dir, r.base)
                    /\ files' \ files =
                           {[dir |-> r.dir, name |-> r.path,
                             content |-> <<idx, i>>]}
          \/ /\ NewRecord[1] = EmptyStr
             /\ NewRecordStamp = EmptyStr
             /\ name_requests' = name_requests
             /\ files' \ files = {}]_vars

\* a record with an identifier and a record without one are in the batch
C25_Witness ==
    /\ Len(all_data_records) >= 2
    /\ all_data_records[1][1] # EmptyStr
    /\ all_data_records[2][1] = EmptyStr
    /\ \E r \in Range(name_requests) : r.written

\* C26 as stated: in the API, whatever the id_keyword, a page that is
\* rasterized and read without a fault ends with a record and with a log
\* entry of its own (identifier found and file written, or "No ID extracted
\* on this page."), never with an error.
C26_ApiExtractorSelected ==
    [][(frontend = "api" /\ pc = "page" /\ pc' # "exited"
           /\ Page.fault = "none" /\ ~Extracted(Page.image).raised)
          => /\ Len(data_records') = Len(data_records) + 1
             /\ log'[Len(log')].kind = "page"]_vars

\* C27 as stated: a page on which the body of the extract_* function raises
\* is treated as a page without identifier: the step appends a record with
\* an empty identifier and the log entry "No ID extracted on this page.".
C27_ExtractorErrorMeansNoId ==
    [][(/\ pc = "page" /\ pc' # "exited"
        /\ ExtractorSelected
        /\ Page.fault # "raster"
        /\ (OcrRaises(Page) \/ Extracted(Page.image).raised))
          => /\ Len(data_records') = Len(data_records) + 1
             /\ NewRecord[1] = EmptyStr
             /\ log'[Len(log')].kind = "page"
             /\ log'[Len(log')].msg = "No ID extracted on this page."]_vars

\* the background tasks that have run their first statement and have not
\* reached the end of their finally clause
Executing == {w \in DOMAIN workers : workers[w].at \in {"try", "named"}}

\* C28 as stated: in the API, processing_state["is_processing"] is True in
\* every state in which a background task is executing, so that GET /status
\* never answers "idle" during active work.
C28_FlagSetWhileExecuting ==
    (frontend = "api" /\ Executing # {}) => processing

\* C29: every value the page loop passes to the progress callback is a
\* quotient by a non-zero number (the document has a page and the batch a
\* document), lies in (0, 100], and is not below the value shown before it
\* in the batch.
C29_ProgressMonotone ==
    [][(frontend = "gui" /\ pc = "page" /\ pc' # "exited") =>
          /\ total_files >= 1 /\ total_pages >= 1
          /\ progressbar'[2] > 0
          /\ progressbar'[1] > 0
          /\ progressbar'[1] <= 100 * progressbar'[2]
          /\ progressbar[1] * progressbar'[2]
                 <= progressbar'[1] * progressbar[2]]_vars

\* the first page of the second document is done, after a first document
\* with pages of its own: its value follows those of the first document
C29_Witness ==
    /\ frontend = "gui"
    /\ idx = 2 /\ i = 2 /\ pc \in {"page", "return"}
    /\ Len(pdfs[1].pages) >= 1
    /\ progressbar = Progress(1, 1, total_pages, total_files)

\* "AB12": the token after "Case" on the sample line, without its blank
AB12 == <<"A", "B", "1", "2">>

\* C30 as stated: under the profiles of extract_va_judgements_lvnv,
\* extract_va_judgements_cava and extract_judgements_mcm, a page whose text
\* is the line "Case: AB 12" is written under the name AB12.
C30_CaseTokenNamesPage ==
    [][(/\ profile \in {"va_judgements_lvnv", "va_judgements_cava",
                        "judgements_mcm"}
        /\ pc = "page" /\ pc' # "exited"
        /\ Page = PageKind("case_token", "none"))
          => /\ Len(name_requests') = Len(name_requests) + 1
             /\ name_requests'[Len(name_requests')].id = AB12
             /\ name_requests'[Len(name_requests')].written]_vars

====
